---- MODULE Spec2Model ----
(***************************************************************************)
(* Telegram Sentiment Backend (src/main.py): the login / verify handshake, *)
(* the session factory get_client_session, and the chats / analyze         *)
(* handlers, as concurrently running request handlers that share the       *)
(* sessions table and the remote messaging service.  A handler advances    *)
(* one await at a time; the code between two awaits is one atomic step.    *)
(***************************************************************************)
EXTENDS Integers, Sequences, FiniteSets, TLC

\* ------------------------------------------------------------------ bounds
MaxReq == 2       \* request handlers that can be in flight at once
MaxKeys == 2      \* auth keys the remote service hands out to fresh sessions
MaxMsgs == 2      \* messages with non-blank text that one analyze retains

Slots == 1..MaxReq
\* chats and analyze write nothing that another request reads: running two of
\* them side by side shows nothing new, so they run in these slots only
Readers == {1}
Keys == 1..MaxKeys
Phones == {"p1", "p2"}
Creds == {[api_id |-> 11, api_hash |-> "ha"], [api_id |-> 22, api_hash |-> "hb"]}
\* the credentials a verify request carries: a pair no login has stored, so
\* that a write of them to the table would show
VerifyCreds == {[api_id |-> 33, api_hash |-> "hc"]}
Codes == {"good", "bad"}
Chats == {"known", "unknown"}

VARIABLES
    req,         \* slot -> the request handler running in it (its locals)
    store,       \* the rows of the sessions table
    nextId,      \* the serial behind sessions.id
    nextKey,     \* remote service: next auth key to hand to a fresh session
    pending,     \* remote service: <<key, phone>> with a login code outstanding
    authorized,  \* remote service: auth keys that are signed in
    analysis     \* one run of the body of analyze over a chat's messages

\* what the request handlers work on
handlers == <<req, store, nextId, nextKey, pending, authorized>>

vars == <<req, store, nextId, nextKey, pending, authorized, analysis>>

\* ------------------------------------------------------- session strings
\* StringSession(): no auth key.  StringSession(s): the key encoded in s.
EmptySession == <<>>

SessionSave(key) == IF key = 0 THEN EmptySession ELSE <<"1", key>>

StringSession(s) == IF s = EmptySession THEN 0 ELSE s[2]

\* ------------------------------------------------------ the sessions table
\* fetch_one found no row (None)
NoUser == [id |-> 0, phone |-> "none", api_id |-> 0, api_hash |-> "",
           session_string |-> EmptySession]

RowsOf(rows, phone) == {row \in rows : row.phone = phone}

\* the select without its where clause: any row answers
FetchOneAnyRow(rows, phone) ==
    IF rows = {} THEN NoUser ELSE CHOOSE row \in rows : TRUE

\* database.fetch_one(sessions.select().where(phone == p))
FetchOne(rows, phone) ==
    IF RowsOf(rows, phone) = {} THEN NoUser
    ELSE CHOOSE row \in RowsOf(rows, phone) : TRUE

\* the insert without its on_conflict_do_update, on a table whose phone
\* column is not unique
UpsertInsertOnly(rows, id, phone, api_id, api_hash, s) ==
    rows \cup {[id |-> id, phone |-> phone, api_id |-> api_id,
                api_hash |-> api_hash, session_string |-> s]}

\* an on_conflict_do_update whose set_ names the session_string only
UpsertTokenOnly(rows, id, phone, api_id, api_hash, s) ==
    IF RowsOf(rows, phone) = {}
    THEN rows \cup {[id |-> id, phone |-> phone, api_id |-> api_id,
                     api_hash |-> api_hash, session_string |-> s]}
    ELSE {IF row.phone = phone THEN [row EXCEPT !.session_string = s] ELSE row :
            row \in rows}

\* insert(sessions).values(...).on_conflict_do_update(index_elements=[phone])
Upsert(rows, id, phone, api_id, api_hash, s) ==
    IF RowsOf(rows, phone) = {}
    THEN rows \cup {[id |-> id, phone |-> phone, api_id |-> api_id,
                     api_hash |-> api_hash, session_string |-> s]}
    ELSE {IF row.phone = phone
          THEN [row EXCEPT !.api_id = api_id, !.api_hash = api_hash,
                           !.session_string = s]
          ELSE row : row \in rows}

\* the update without its where clause
UpdateTokenNoWhere(rows, phone, s) ==
    {[row EXCEPT !.session_string = s] : row \in rows}

\* sessions.update().where(phone == p).values(session_string=s)
UpdateToken(rows, phone, s) ==
    {IF row.phone = phone THEN [row EXCEPT !.session_string = s] ELSE row :
        row \in rows}

\* ------------------------------------------------------------- exceptions
Exc(type, msg) == [type |-> type, msg |-> msg, seconds |-> 0]

ConnectionError == Exc("ConnectionError", "connection failed")
RPCError == Exc("RPCError", "rpc failed")
DatabaseError == Exc("DatabaseError", "write failed")
PhoneNumberInvalidError == Exc("PhoneNumberInvalidError", "phone invalid")
FloodWaitError == [type |-> "FloodWaitError", msg |-> "flood wait", seconds |-> 30]
PhoneCodeInvalidError == Exc("PhoneCodeInvalidError", "code invalid")
PhoneCodeExpiredError == Exc("PhoneCodeExpiredError", "code expired")
ChatIdInvalidError == Exc("ChatIdInvalidError", "invalid object ID for a chat")
ValueError == Exc("ValueError", "could not find the input entity")
RuntimeError == Exc("RuntimeError", "Model hali yuklanmadi")
\* HTTPException(status_code=401, ...) as raised inside get_client_session
SessionExpired == Exc("HTTPException", "401: Sessiya muddati tugagan. Qayta login qiling.")

\* -------------------------------------------------------------- responses
Resp(code, detail, info) == [code |-> code, detail |-> detail, info |-> info]

NoResp == Resp(0, <<>>, 0)

\* an exception no handler catches: the framework answers 500
Unhandled == Resp(500, <<"Internal Server Error">>, 0)

\* ------------------------------------------------------------ the handlers
\* the locals of a handler: its request data, its client (key, conn) and, once
\* it has answered, its response.  authed is history, not a local: whether the
\* phone's stored token was authorized, every verify for it having returned,
\* when the login request arrived
Idle == [kind |-> "idle", pc |-> "idle", phone |-> "none", api_id |-> 0,
         api_hash |-> "", code |-> "", hash |-> 0, chat |-> "",
         key |-> 0, conn |-> "none", sent |-> 0, authed |-> FALSE,
         left |-> 0, analyzed |-> 0, negatives |-> 0, resp |-> NoResp]

\* a slot takes a new request when none is running in it
Free(r) == req[r].pc \in {"idle", "done"}

\* a disconnect() that is never awaited
DisconnectNotAwaited(conn) == conn

\* client.disconnect()
Disconnect(conn) == "closed"

\* client.is_user_authorized(): what the remote service says of the key
IsUserAuthorized(key) == key \in authorized

\* what a connect() that raised may leave behind: nothing, or a transport
\* that was opened before the failure
FailedConnect == {"none", "open"}

Set(r, rec) == req' = [req EXCEPT ![r] = rec]

\* the handler answers and its frame is gone: what stays is which request it
\* was, what became of its connection and the response
Answer(cur, conn, resp) ==
    [Idle EXCEPT !.kind = cur.kind, !.pc = "done", !.phone = cur.phone,
                 !.conn = conn, !.resp = resp]

\* leaving through "finally: await client.disconnect()"
Return(r, cur, resp) == Set(r, Answer(cur, Disconnect(cur.conn), resp))

\* leaving with no finally on the way
Raise(r, cur, conn, resp) == Set(r, Answer(cur, conn, resp))

\* the durable handshake state of a phone
Registered(phone) == RowsOf(store, phone) # {}

Authenticated(phone) ==
    \E row \in RowsOf(store, phone) :
        IsUserAuthorized(StringSession(row.session_string))

\* the phone is AUTHENTICATED and no verify for it is still on its way
Settled(phone) ==
    /\ Authenticated(phone)
    /\ \A q \in Slots :
          ~(req[q].kind = "verify" /\ ~Free(q) /\ req[q].phone = phone)

\* ------------------------------------------------------- message analysis
\* Texts are sequences of characters.  message.text is None or a str.
None == [none |-> TRUE, chars |-> <<>>]

Str(chars) == [none |-> FALSE, chars |-> chars]

\* "if message.text": None and "" are falsy
Truthy(text) == ~text.none /\ Len(text.chars) > 0

\* str.lower(), over the letters the texts use
LowerChar(c) ==
    CASE c = "Y" -> "y"
      [] c = "M" -> "m"
      [] c = "N" -> "n"
      [] c = "O" -> "o"
      [] OTHER -> c

Lower(chars) == [i \in 1..Len(chars) |-> LowerChar(chars[i])]

IsSpace(c) == c \in {" ", "\t", "\n"}

\* str.strip(): without the leading and the trailing whitespace
Strip(chars) ==
    LET solid == {i \in 1..Len(chars) : ~IsSpace(chars[i])} IN
    IF solid = {} THEN <<>>
    ELSE SubSeq(chars,
                CHOOSE i \in solid : \A j \in solid : i <= j,
                CHOOSE i \in solid : \A j \in solid : j <= i)

\* kw in text: kw is a substring of text
Contains(kw, chars) ==
    \E i \in 0..(Len(chars) - Len(kw)) : SubSeq(chars, i + 1, i + Len(kw)) = kw

\* the lines of data/uz_negative_words.txt, stripped and lowercased, blank
\* lines left out (a sample of them)
NEGATIVE_KEYWORDS == {<<"y", "o", "m", "o", "n">>, <<"y", "o", "q">>}

\* text[:512]
ModelMaxChars == 512

Truncate(chars) ==
    SubSeq(chars, 1, IF Len(chars) < ModelMaxChars THEN Len(chars) ELSE ModelMaxChars)

\* 1.0, confidences being counted in 1/10000
ConfidenceOne == 10000

\* round(score, 4): a score counted in 1/100000 to a confidence in 1/10000
\* (the scores drawn are not ties)
Round4(score) == (score + 5) \div 10

\* what the sentiment pipeline answers for one text
Labels == {"NEGATIVE", "POSITIVE"}

Scores == {87654, 99996}

\* a text without the filter for empty and whitespace-only texts
HasTextUnstripped(message) == Truthy(message.text)

\* if message.text and len(message.text.strip()) > 0
HasText(message) == Truthy(message.text) /\ Len(Strip(message.text.chars)) > 0

\* keyword_match = any(kw in text_lower for kw in NEGATIVE_KEYWORDS)
KeywordMatch(text_lower) == \E kw \in NEGATIVE_KEYWORDS : Contains(kw, text_lower)

\* a message kept on the model's label alone
IsNegativeByLabel(result, keyword_match) == result.label = "NEGATIVE"

\* if result["label"] == "NEGATIVE" or keyword_match
IsNegative(result, keyword_match) == result.label = "NEGATIVE" \/ keyword_match

\* the model's rounded score whatever the keywords say
ConfidenceOfModel(result, keyword_match) == Round4(result.score)

\* round(result["score"], 4) if not keyword_match else 1.0
Confidence(result, keyword_match) ==
    IF ~keyword_match THEN Round4(result.score) ELSE ConfidenceOne

\* the dict appended for a negative message
NegativeMessage(msg, result, keyword_match) ==
    [id |-> msg.id, text |-> msg.text, sender_id |-> msg.sender_id,
     confidence |-> Confidence(result, keyword_match)]

\* a list that grows at its head
Prepend(list, entry) == <<entry>> \o list

\* negative_messages.append(...)
AppendNegative(list, entry) == Append(list, entry)

\* client.iter_messages(entity, limit=): at most limit messages, newest first
Fetch(inbox, limit) ==
    SubSeq(inbox, 1, IF limit < Len(inbox) THEN limit ELSE Len(inbox))

\* the messages_to_process the loop over the fetched messages builds
Keep(fetched) == SelectSeq(fetched, HasText)

\* what analyze has answered: nothing yet (status_code 0), the report, or a
\* failure
NoResponse ==
    [status_code |-> 0, analyzed_count |-> 0, negative_count |-> 0,
     negative_messages |-> <<>>]

Failure(resp) == [NoResponse EXCEPT !.status_code = resp.code]

\* the locals of analyze once the chat is resolved; classified lists the calls
\* of analyze_text_sync made so far, with what each was given and answered
Analysis(inbox, limit) ==
    [pc |-> "messages", inbox |-> inbox, limit |-> limit,
     messages_to_process |-> <<>>, analyzed_count |-> 0,
     negative_messages |-> <<>>, classified |-> <<>>, response |-> NoResponse]

NoAnalysis == [Analysis(<<>>, 0) EXCEPT !.pc = "none"]

Init ==
    /\ analysis = NoAnalysis
    /\ req = [r \in Slots |-> Idle]
    /\ store = {}
    /\ nextId = 1
    /\ nextKey = 1
    /\ pending = {}
    /\ authorized = {}

\* ------------------------------------------------------------------ login
\* every failure answered by the last except clause
LoginExceptGeneric(e) == Resp(400, <<"Xatolik: ", e.msg>>, 0)

\* except clauses of login
LoginExcept(e) ==
    CASE e.type = "PhoneNumberInvalidError" ->
            Resp(400, <<"Telefon raqam noto'g'ri formatda">>, 0)
      [] e.type = "FloodWaitError" ->
            Resp(429, <<"Telegram blokladi. ", "soniya kuting.">>, e.seconds)
      [] OTHER -> Resp(400, <<"Xatolik: ", e.msg>>, 0)

\* login(data): client = TelegramClient(StringSession(), data.api_id,
\* data.api_hash); await client.connect()
\* (before the try: an exception here reaches no except and no finally)
LoginConnect(r, phone, cred) ==
    LET cur == [Idle EXCEPT !.kind = "login", !.phone = phone,
                            !.api_id = cred.api_id, !.api_hash = cred.api_hash,
                            !.key = StringSession(EmptySession),
                            !.authed = Settled(phone)] IN
    /\ Free(r)
    /\ nextKey <= MaxKeys
    /\ \E ok \in BOOLEAN :
        IF ok
        THEN /\ Set(r, [cur EXCEPT !.pc = "authcheck", !.conn = "open",
                                   !.key = nextKey])
             /\ nextKey' = nextKey + 1
        ELSE /\ \E c \in FailedConnect : Raise(r, cur, c, Unhandled)
             /\ UNCHANGED nextKey
    /\ UNCHANGED <<store, nextId, pending, authorized, analysis>>

\* if await client.is_user_authorized(): return {"status": "authorized"}
LoginAuthCheck(r) ==
    LET cur == req[r] IN
    /\ cur.kind = "login" /\ cur.pc = "authcheck"
    /\ \E raised \in BOOLEAN :
        IF raised THEN Return(r, cur, LoginExcept(ConnectionError))
        ELSE IF IsUserAuthorized(cur.key)
             THEN Return(r, cur, Resp(200, <<"authorized">>, 0))
             ELSE Set(r, [cur EXCEPT !.pc = "sendcode"])
    /\ UNCHANGED <<store, nextId, nextKey, pending, authorized, analysis>>

SendCodeErrors == {PhoneNumberInvalidError, FloodWaitError, RPCError}

\* sent = await client.send_code_request(data.phone)
LoginSendCode(r) ==
    LET cur == req[r] IN
    /\ cur.kind = "login" /\ cur.pc = "sendcode"
    /\ \/ /\ Set(r, [cur EXCEPT !.pc = "upsert", !.sent = cur.key])
          /\ pending' = pending \cup {<<cur.key, cur.phone>>}
       \/ /\ \E e \in SendCodeErrors : Return(r, cur, LoginExcept(e))
          /\ UNCHANGED pending
    /\ UNCHANGED <<store, nextId, nextKey, authorized, analysis>>

\* session_string = client.session.save(); await database.execute(upsert)
LoginUpsert(r) ==
    LET cur == req[r] IN
    /\ cur.kind = "login" /\ cur.pc = "upsert"
    /\ \/ /\ store' = Upsert(store, nextId, cur.phone, cur.api_id, cur.api_hash,
                              SessionSave(cur.key))
          /\ nextId' = nextId + 1
          /\ Return(r, cur, Resp(200, <<"waiting_for_code">>, cur.sent))
       \/ /\ Return(r, cur, LoginExcept(DatabaseError))
          /\ UNCHANGED <<store, nextId>>
    /\ UNCHANGED <<nextKey, pending, authorized, analysis>>

\* ----------------------------------------------------------------- verify
\* the failure answered as a server error
VerifyExceptServerError(e) == Resp(500, <<e.msg>>, 0)

\* except Exception as e: raise HTTPException(status_code=400, detail=str(e))
VerifyExcept(e) == Resp(400, <<e.msg>>, 0)

\* verify(data): user = await database.fetch_one(query); if not user: raise 404
\* client = TelegramClient(StringSession(user["session_string"]), data.api_id,
\* data.api_hash)
VerifyLookup(r, phone, code, hash, cred) ==
    LET cur == [Idle EXCEPT !.kind = "verify", !.phone = phone, !.code = code,
                            !.hash = hash, !.api_id = cred.api_id,
                            !.api_hash = cred.api_hash]
        user == FetchOne(store, phone) IN
    /\ Free(r)
    /\ IF user = NoUser
       THEN Raise(r, cur, cur.conn, Resp(404, <<"Avval login qiling">>, 0))
       ELSE Set(r, [cur EXCEPT !.pc = "connect",
                               !.key = StringSession(user.session_string)])
    /\ UNCHANGED <<store, nextId, nextKey, pending, authorized, analysis>>

\* await client.connect()   (before the try)
VerifyConnect(r) ==
    LET cur == req[r] IN
    /\ cur.kind = "verify" /\ cur.pc = "connect"
    /\ \E ok \in BOOLEAN :
        IF ok
        THEN Set(r, [cur EXCEPT !.pc = "signin", !.conn = "open"])
        ELSE \E c \in FailedConnect : Raise(r, cur, c, Unhandled)
    /\ UNCHANGED <<store, nextId, nextKey, pending, authorized, analysis>>

\* the remote service accepts the code: one was sent to this phone on this
\* session, the hash is the one that request returned, the code is the right one
CodeAccepted(key, phone, code, hash) ==
    /\ <<key, phone>> \in pending
    /\ hash = key
    /\ code = "good"

\* the errors sign_in can raise for this submission
SignInErrors(key, phone, code, hash) ==
    {ConnectionError}
      \cup (IF code = "bad" THEN {PhoneCodeInvalidError} ELSE {})
      \cup (IF <<key, phone>> \notin pending \/ hash # key
            THEN {PhoneCodeExpiredError} ELSE {})

\* await client.sign_in(phone=, code=, phone_code_hash=)
VerifySignIn(r) ==
    LET cur == req[r] IN
    /\ cur.kind = "verify" /\ cur.pc = "signin"
    /\ \/ /\ CodeAccepted(cur.key, cur.phone, cur.code, cur.hash)
          /\ Set(r, [cur EXCEPT !.pc = "update"])
          /\ authorized' = authorized \cup {cur.key}
          /\ pending' = pending \ {<<cur.key, cur.phone>>}
       \/ /\ \E e \in SignInErrors(cur.key, cur.phone, cur.code, cur.hash) :
                Return(r, cur, VerifyExcept(e))
          /\ UNCHANGED <<pending, authorized>>
    /\ UNCHANGED <<store, nextId, nextKey, analysis>>

\* session_string = client.session.save(); await database.execute(update_query)
VerifyUpdate(r) ==
    LET cur == req[r] IN
    /\ cur.kind = "verify" /\ cur.pc = "update"
    /\ \/ /\ store' = UpdateToken(store, cur.phone, SessionSave(cur.key))
          /\ Return(r, cur, Resp(200, <<"success">>, 0))
       \/ /\ Return(r, cur, VerifyExcept(DatabaseError))
          /\ UNCHANGED store
    /\ UNCHANGED <<nextId, nextKey, pending, authorized, analysis>>

\* ----------------------------------------------------- get_client_session
\* except Exception as e: raise HTTPException(status_code=500, ...str(e))
\* (the clause also catches the HTTPException raised inside the try)
FactoryExcept(e) == Resp(500, <<"Telegram ulanish xatosi: ", e.msg>>, 0)

\* get_chats(phone) / analyze(data): client = await get_client_session(phone)
\* user = await database.fetch_one(query); if not user: raise 404
\* client = TelegramClient(StringSession(user["session_string"]),
\* user["api_id"], user["api_hash"])
OpenLookup(r, kind, phone, chat) ==
    LET cur == [Idle EXCEPT !.kind = kind, !.phone = phone, !.chat = chat]
        user == FetchOne(store, phone) IN
    /\ Free(r)
    /\ r \in Readers
    /\ IF user = NoUser
       THEN Raise(r, cur, cur.conn,
                  Resp(404, <<"Foydalanuvchi topilmadi. Avval login qiling.">>, 0))
       ELSE Set(r, [cur EXCEPT !.pc = "connect",
                               !.key = StringSession(user.session_string)])
    /\ UNCHANGED <<store, nextId, nextKey, pending, authorized, analysis>>

\* await client.connect()   (inside the try, which has no finally)
OpenConnect(r) ==
    LET cur == req[r] IN
    /\ cur.kind \in {"chats", "analyze"} /\ cur.pc = "connect"
    /\ \E ok \in BOOLEAN :
        IF ok
        THEN Set(r, [cur EXCEPT !.pc = "authcheck", !.conn = "open"])
        ELSE \E c \in FailedConnect : Raise(r, cur, c, FactoryExcept(ConnectionError))
    /\ UNCHANGED <<store, nextId, nextKey, pending, authorized, analysis>>

\* a factory that deletes the row of a session it finds expired
OpenAuthCheckDropsRow(r) ==
    LET cur == req[r] IN
    /\ cur.kind \in {"chats", "analyze"} /\ cur.pc = "authcheck"
    /\ \E raised \in BOOLEAN :
        IF raised
        THEN /\ Raise(r, cur, cur.conn, FactoryExcept(ConnectionError))
             /\ UNCHANGED store
        ELSE IF IsUserAuthorized(cur.key)
             THEN /\ Set(r, [cur EXCEPT !.pc = IF cur.kind = "chats" THEN "dialogs"
                                                                     ELSE "entity"])
                  /\ UNCHANGED store
             ELSE /\ Raise(r, cur, Disconnect(cur.conn), FactoryExcept(SessionExpired))
                  /\ store' = store \ RowsOf(store, cur.phone)
    /\ UNCHANGED <<nextId, nextKey, pending, authorized, analysis>>

\* if not await client.is_user_authorized(): await client.disconnect();
\* raise HTTPException(401)   else   return client
OpenAuthCheck(r) ==
    LET cur == req[r] IN
    /\ cur.kind \in {"chats", "analyze"} /\ cur.pc = "authcheck"
    /\ \E raised \in BOOLEAN :
        IF raised THEN Raise(r, cur, cur.conn, FactoryExcept(ConnectionError))
        ELSE IF IsUserAuthorized(cur.key)
             THEN Set(r, [cur EXCEPT !.pc = IF cur.kind = "chats" THEN "dialogs"
                                                                  ELSE "entity"])
             ELSE Raise(r, cur, Disconnect(cur.conn), FactoryExcept(SessionExpired))
    /\ UNCHANGED <<store, nextId, nextKey, pending, authorized, analysis>>

\* ------------------------------------------------------------------ chats
\* except Exception as e: raise HTTPException(status_code=500, detail=str(e))
ChatsExcept(e) == Resp(500, <<e.msg>>, 0)

\* async for dialog in client.iter_dialogs(limit=50): ...; return {"chats": ...}
ChatsDialogs(r) ==
    LET cur == req[r] IN
    /\ cur.kind = "chats" /\ cur.pc = "dialogs"
    /\ \/ Return(r, cur, Resp(200, <<"chats">>, 0))
       \/ Return(r, cur, ChatsExcept(ConnectionError))
    /\ UNCHANGED <<store, nextId, nextKey, pending, authorized, analysis>>

\* ---------------------------------------------------------------- analyze
\* except ValueError: 400 "Chat topilmadi"; except Exception as e: 500 str(e)
AnalyzeExcept(e) ==
    IF e.type = "ValueError"
    THEN Resp(400, <<"Chat topilmadi (ID noto'g'ri)">>, 0)
    ELSE Resp(500, <<e.msg>>, 0)

\* how client.get_entity can fail: a chat the service cannot resolve is
\* reported as ValueError (no such entity known to the session) or as an RPC
\* error of the service (ChatIdInvalidError); any call can lose the transport
EntityErrors(chat) ==
    IF chat = "unknown" THEN {ValueError, ChatIdInvalidError} ELSE {ConnectionError}

\* return {"analyzed_count": ..., "negative_count": ..., "negative_messages": ...}
Report(cur) == Resp(200, <<"report">>, cur.analyzed)

\* entity = await client.get_entity(data.chat_id)
AnalyzeEntity(r) ==
    LET cur == req[r] IN
    /\ cur.kind = "analyze" /\ cur.pc = "entity"
    /\ \/ /\ cur.chat = "known"
          /\ Set(r, [cur EXCEPT !.pc = "messages"])
       \/ \E e \in EntityErrors(cur.chat) : Return(r, cur, AnalyzeExcept(e))
    /\ UNCHANGED <<store, nextId, nextKey, pending, authorized, analysis>>

\* async for message in client.iter_messages(entity, limit=data.limit): keep
\* the messages with non-blank text; analyzed_count = len(messages_to_process)
AnalyzeMessages(r) ==
    LET cur == req[r] IN
    /\ cur.kind = "analyze" /\ cur.pc = "messages"
    /\ \/ \E n \in 0..MaxMsgs :
             LET got == [cur EXCEPT !.analyzed = n, !.left = n, !.pc = "classify"] IN
             IF n = 0 THEN Return(r, got, Report(got)) ELSE Set(r, got)
       \/ Return(r, cur, AnalyzeExcept(ConnectionError))
    /\ UNCHANGED <<store, nextId, nextKey, pending, authorized, analysis>>

\* what classifying one message can raise: the model is not loaded
\* (RuntimeError), or the pipeline rejects the text (a ValueError, such as the
\* UnicodeEncodeError of a text the tokenizer cannot encode)
ClassifyErrors == {RuntimeError, ValueError}

\* result = await asyncio.to_thread(analyze_text_sync, msg.text); append the
\* message if it is negative; after the last one, return the report
AnalyzeClassify(r) ==
    LET cur == req[r] IN
    /\ cur.kind = "analyze" /\ cur.pc = "classify"
    /\ \/ \E negative \in BOOLEAN :
             LET got == [cur EXCEPT !.left = cur.left - 1,
                                    !.negatives = cur.negatives +
                                                  (IF negative THEN 1 ELSE 0)] IN
             IF got.left = 0 THEN Return(r, got, Report(got)) ELSE Set(r, got)
       \/ \E e \in ClassifyErrors : Return(r, cur, AnalyzeExcept(e))
    /\ UNCHANGED <<store, nextId, nextKey, pending, authorized, analysis>>

\* ------------------------------------------------------ the remote service
\* the service ends a signed-in session (logged out elsewhere, expired)
Revoke(key) ==
    /\ key \in authorized
    /\ authorized' = authorized \ {key}
    /\ UNCHANGED <<req, store, nextId, nextKey, pending, analysis>>

Next ==
    \/ \E k \in Keys : Revoke(k)
    \/ \E r \in Slots :
        \/ \E p \in Phones : OpenLookup(r, "chats", p, "")
        \/ \E p \in Phones, c \in Chats : OpenLookup(r, "analyze", p, c)
        \/ OpenConnect(r)
        \/ OpenAuthCheck(r)
        \/ ChatsDialogs(r)
        \/ AnalyzeEntity(r)
        \/ AnalyzeMessages(r)
        \/ AnalyzeClassify(r)
        \/ \E p \in Phones, c \in Creds : LoginConnect(r, p, c)
        \/ LoginAuthCheck(r)
        \/ LoginSendCode(r)
        \/ LoginUpsert(r)
        \/ \E p \in Phones, c \in Codes, h \in Keys, a \in VerifyCreds :
              VerifyLookup(r, p, c, h, a)
        \/ VerifyConnect(r)
        \/ VerifySignIn(r)
        \/ VerifyUpdate(r)

Spec == Init /\ [][Next]_vars

\* ------------------------------------------- the body of analyze, in detail
\* Under SpecAnalyze one analyze runs from the resolved chat to its answer,
\* over every history and limit within the bounds.
MaxInbox == 3

\* a text longer than the model is given
LongText == [i \in 1..(ModelMaxChars + 1) |-> IF i = ModelMaxChars THEN "!" ELSE "a"]

Texts ==
    {None, Str(<<>>), Str(<<" ", "\t">>), Str(<<"o", "k">>),
     Str(<<" ", "Y", "o", "M", "o", "n", "!">>), Str(LongText)}

\* sender_id is Optional[int], None for a post without a sender: 0 stands
\* for None
SenderAt(i) == IF i % 2 = 1 THEN 0 ELSE 70 + i

\* the histories of a chat, newest message first, ids falling
Inboxes ==
    UNION {{[i \in 1..n |-> [id |-> n + 1 - i, text |-> texts[i],
                           sender_id |-> SenderAt(i)]] :
              texts \in [1..n -> Texts]} : n \in 0..MaxInbox}

Limits == 0..MaxInbox

InitAnalyze ==
    /\ req = [r \in Slots |-> Idle]
    /\ store = {}
    /\ nextId = 1
    /\ nextKey = 1
    /\ pending = {}
    /\ authorized = {}
    /\ \E inbox \in Inboxes, limit \in Limits : analysis = Analysis(inbox, limit)

\* return {"analyzed_count": ..., "negative_count": len(negative_messages),
\* "negative_messages": negative_messages}
AnalyzeReturn(cur) ==
    [cur EXCEPT !.pc = "done",
                !.response = [status_code |-> Report(Idle).code,
                              analyzed_count |-> cur.analyzed_count,
                              negative_count |-> Len(cur.negative_messages),
                              negative_messages |-> cur.negative_messages]]

\* the handler leaves through one of its except clauses
AnalyzeRaise(cur, e) ==
    [cur EXCEPT !.pc = "done", !.response = Failure(AnalyzeExcept(e))]

\* async for message in client.iter_messages(entity, limit=data.limit):
\*     if message.text and len(message.text.strip()) > 0: append it
\* analyzed_count = len(messages_to_process)
IterMessages ==
    LET cur == analysis IN
    /\ cur.pc = "messages"
    /\ \/ LET kept == Keep(Fetch(cur.inbox, cur.limit))
              got == [cur EXCEPT !.messages_to_process = kept,
                                 !.analyzed_count = Len(kept),
                                 !.pc = "classify"] IN
          analysis' = IF Len(kept) = 0 THEN AnalyzeReturn(got) ELSE got
       \/ analysis' = AnalyzeRaise(cur, ConnectionError)
    /\ UNCHANGED handlers

\* analyze_text_sync(msg.text): the pipeline's answer for text[:512]
analyze_text_sync(text) ==
    {[input |-> Truncate(text.chars), label |-> label, score |-> score] :
        label \in Labels, score \in Scores}

\* one round of "for msg in messages_to_process": classify msg, match the
\* keywords on its lowercased text, append it if negative; after the last
\* one, return
ClassifyMessage ==
    LET cur == analysis
        msg == cur.messages_to_process[Len(cur.classified) + 1]
        text_lower == Lower(msg.text.chars) IN
    /\ cur.pc = "classify"
    /\ \/ \E result \in analyze_text_sync(msg.text) :
             LET keyword_match == KeywordMatch(text_lower)
                 got == [cur EXCEPT
                           !.classified = Append(@, [id |-> msg.id,
                                                     input |-> result.input,
                                                     label |-> result.label,
                                                     score |-> result.score]),
                           !.negative_messages =
                               IF IsNegative(result, keyword_match)
                               THEN AppendNegative(@, NegativeMessage(msg, result,
                                                                      keyword_match))
                               ELSE @] IN
             analysis' = IF Len(got.classified) = Len(cur.messages_to_process)
                         THEN AnalyzeReturn(got) ELSE got
       \/ \E e \in ClassifyErrors : analysis' = AnalyzeRaise(cur, e)
    /\ UNCHANGED handlers

NextAnalyze == IterMessages \/ ClassifyMessage

SpecAnalyze == InitAnalyze /\ [][NextAnalyze]_vars

\* ================================================================= claims
\* the step is taken by the handler running in slot r
Steps(r) == req'[r] # req[r]

\* the step is the first one of a new request in slot r
Starts(r, kinds) == Free(r) /\ Steps(r) /\ req'[r].kind \in kinds

\* the step is a later one of the request of one of these kinds in slot r
Continues(r, kinds) == ~Free(r) /\ Steps(r) /\ req[r].kind \in kinds

\* the handler in slot r has answered
Done(r, kinds) == req[r].pc = "done" /\ req[r].kind \in kinds

\* ---- C1
\* C1: a login that arrived when the phone's stored token was authorized, and
\* finds it still authorized at its authorization check, answers "authorized"
\* there (unless the check itself fails): it goes on neither to request a code
\* nor to write the row.
C1_AuthorizedLoginShortCircuits ==
    [][\A r \in Slots :
          (/\ Continues(r, {"login"})
           /\ req[r].pc = "authcheck"
           /\ req[r].authed
           /\ Authenticated(req[r].phone))
          => /\ req'[r].pc = "done"
             /\ req'[r].resp \in {Resp(200, <<"authorized">>, 0),
                                  LoginExcept(ConnectionError)}]_vars

\* ---- C2
\* C2: when the session factory finds the stored token not authorized, it has
\* closed the connection and the request fails with 401 (SessionExpired), not
\* with the 500 of a remote-service error.
C2_UnauthorizedIsSessionExpired ==
    [][\A r \in Slots :
          (/\ Continues(r, {"chats", "analyze"})
           /\ req[r].pc = "authcheck"
           /\ ~IsUserAuthorized(req[r].key)
           /\ req'[r].pc = "done"
           /\ req'[r].conn = "closed")
          => req'[r].resp.code = 401]_vars

\* ---- C3
\* C3: a chats or analyze request that ended with the factory's remote-service
\* error (500 carrying the underlying message) has no connection left open.
C3_FactoryClosesOnError ==
    \A r \in Slots :
        (Done(r, {"chats", "analyze"}) /\ req[r].resp = FactoryExcept(ConnectionError))
        => req[r].conn # "open"

\* ---- C4
\* C4: a login or verify request that has answered, whatever the answer, has
\* no connection left open.
C4_HandshakeClosesConnection ==
    \A r \in Slots : Done(r, {"login", "verify"}) => req[r].conn # "open"

\* ---- C5
\* C5: from the moment chats or analyze holds a live session until it answers,
\* the session is connected; the step that answers leaves it disconnected.
C5_SessionReleasedOnExit ==
    [][\A r \in Slots :
          (/\ Continues(r, {"chats", "analyze"})
           /\ req[r].pc \in {"dialogs", "entity", "messages", "classify"})
          => /\ req[r].conn = "open"
             /\ req'[r].conn = IF req'[r].pc = "done" THEN "closed" ELSE "open"]_vars

C5_Witness ==
    \E r \in Slots :
        /\ Done(r, {"analyze"})
        /\ req[r].resp = AnalyzeExcept(ValueError)
        /\ req[r].conn = "closed"

\* ---- C6
\* C6: analyze of a chat the remote service cannot resolve answers 400
\* (InvalidChat), however the service reports the failure.
C6_UnresolvableChatIsInvalidChat ==
    [][\A r \in Slots :
          (/\ Continues(r, {"analyze"})
           /\ req[r].pc = "entity"
           /\ req[r].chat = "unknown")
          => /\ req'[r].pc = "done"
             /\ req'[r].resp.code = 400]_vars

\* ---- C7
\* C7: the sessions table never holds two rows for one phone.
C7_OneRowPerPhone ==
    \A phone \in Phones : Cardinality(RowsOf(store, phone)) <= 1

\* two logins for one phone overlapped with no row there: the one that
\* connected first wrote last, and no verify came between
C7_Witness ==
    /\ nextId = 3
    /\ \E phone \in Phones :
          /\ pending = {<<1, phone>>, <<2, phone>>}
          /\ \E row \in store : /\ row.phone = phone
                                /\ row.id = 1
                                /\ row.session_string = SessionSave(1)
          /\ Cardinality(store) = 1

\* ---- C8
\* C8: no step of a verify request creates or deletes a row or changes the
\* api_id or api_hash of any row, and it changes no row of another phone.
C8_VerifyFrame ==
    [][\A r \in Slots :
          (Starts(r, {"verify"}) \/ Continues(r, {"verify"}))
          => LET phone == IF Free(r) THEN req'[r].phone ELSE req[r].phone IN
             /\ Cardinality(store') = Cardinality(store)
             /\ \A row \in store :
                   \E new \in store' :
                      /\ new.id = row.id /\ new.phone = row.phone
                      /\ new.api_id = row.api_id /\ new.api_hash = row.api_hash
                      /\ (row.phone # phone => new = row)]_vars

\* a verify succeeded while the table held the row of another phone too
C8_Witness ==
    /\ Cardinality(store) = 2
    /\ \E r \in Slots :
          /\ Done(r, {"verify"})
          /\ req[r].resp = Resp(200, <<"success">>, 0)
          /\ Authenticated(req[r].phone)

\* ---- C9
\* C9: a verify whose sign_in fails answers 400 carrying the message of the
\* error the service raised, and neither that step nor any step of the request
\* before it writes to the table.
C9_FailedVerifyWritesNothing ==
    [][\A r \in Slots :
          /\ (Starts(r, {"verify"})
              \/ (Continues(r, {"verify"}) /\ req[r].pc \in {"connect", "signin"}))
             => store' = store
          /\ (/\ Continues(r, {"verify"})
              /\ req[r].pc = "signin"
              /\ req'[r].pc = "done")
             => \E e \in SignInErrors(req[r].key, req[r].phone, req[r].code,
                                     req[r].hash) :
                   req'[r].resp = Resp(400, <<e.msg>>, 0)]_vars

\* a verify was refused for a wrong code and the phone is still in CODE_SENT
C9_Witness ==
    \E r \in Slots :
        /\ Done(r, {"verify"})
        /\ req[r].resp = Resp(400, <<PhoneCodeInvalidError.msg>>, 0)
        /\ Registered(req[r].phone)
        /\ ~Authenticated(req[r].phone)

\* ---- C10
\* C10: verify, chats and analyze for a phone with no row answer 404 in
\* their first step, with no connection opened and the table unchanged.
C10_UnregisteredIsNotFound ==
    [][\A r \in Slots :
          (/\ Starts(r, {"verify", "chats", "analyze"})
           /\ ~Registered(req'[r].phone))
          => /\ req'[r].pc = "done"
             /\ req'[r].resp.code = 404
             /\ req'[r].conn = "none"
             /\ req'[r].key = 0
             /\ store' = store]_vars

\* analyze answered 404 for a phone while the table held another phone's row
C10_Witness ==
    \E r \in Slots :
        /\ Done(r, {"analyze"})
        /\ req[r].resp.code = 404
        /\ ~Registered(req[r].phone)
        /\ store # {}

\* ---- C11
\* what the interface promises for a failed code request
C11_Promised(e) ==
    CASE e.type = "PhoneNumberInvalidError" -> [code |-> 400, seconds |-> 0]
      [] e.type = "FloodWaitError" -> [code |-> 429, seconds |-> e.seconds]
      [] OTHER -> [code |-> 400, seconds |-> 0]

\* C11: a login whose code request fails answers 400 for an invalid phone,
\* 429 carrying the wait in seconds when throttled and 400 for any other
\* failure, each with its own message, and no step of the request up to and
\* including that one writes to the table.
C11_CodeRequestFailure ==
    [][\A r \in Slots :
          /\ (Starts(r, {"login"})
              \/ (Continues(r, {"login"}) /\ req[r].pc \in {"authcheck", "sendcode"}))
             => (store' = store /\ nextId' = nextId)
          /\ (/\ Continues(r, {"login"})
              /\ req[r].pc = "sendcode"
              /\ req'[r].pc = "done")
             => \E e \in SendCodeErrors :
                   /\ req'[r].resp.code = C11_Promised(e).code
                   /\ req'[r].resp.info = C11_Promised(e).seconds
                   /\ req'[r].resp.detail =
                        (CASE e = PhoneNumberInvalidError ->
                                 <<"Telefon raqam noto'g'ri formatda">>
                           [] e = FloodWaitError ->
                                 <<"Telegram blokladi. ", "soniya kuting.">>
                           [] OTHER -> <<"Xatolik: ", e.msg>>)]_vars

\* a login was throttled for a phone that has no row
C11_Witness ==
    \E r \in Slots :
        /\ Done(r, {"login"})
        /\ req[r].resp.code = 429
        /\ req[r].resp.info = FloodWaitError.seconds
        /\ ~Registered(req[r].phone)

\* ---- C16
\* C16: no step of a chats or analyze request, the session factory included,
\* changes the sessions table: no row is written, created or deleted.
C16_ReadersWriteNothing ==
    [][\A r \in Slots :
          (Starts(r, {"chats", "analyze"}) \/ Continues(r, {"chats", "analyze"}))
          => (store' = store /\ nextId' = nextId)]_vars

\* chats found the session of a signed-in phone ended by the service, and the
\* row is still there with its token
C16_Witness ==
    \E r \in Slots :
        /\ Done(r, {"chats"})
        /\ req[r].resp = FactoryExcept(SessionExpired)
        /\ \E row \in RowsOf(store, req[r].phone) :
              /\ ~IsUserAuthorized(StringSession(row.session_string))
              /\ <<StringSession(row.session_string), row.phone>> \notin pending

C18_AuthenticatedOnlyByVerify ==
    [][/\ \A phone \in Phones :
             (~Authenticated(phone) /\ Authenticated(phone)')
             => \E r \in Slots :
                   /\ Continues(r, {"verify"})
                   /\ req[r].phone = phone
                   /\ req[r].pc \in {"signin", "update"}
                   /\ req[r].key \in authorized'
                   /\ Registered(phone)
       /\ \A entry \in pending' \ pending :
             \E r \in Slots :
                /\ Continues(r, {"login"})
                /\ req[r].pc = "sendcode"
                /\ entry = <<req[r].key, req[r].phone>>
       /\ \A r \in Slots :
             (Starts(r, {"verify"}) \/ Continues(r, {"verify"}))
             => \A phone \in Phones : Registered(phone)' = Registered(phone)]_vars

\* a phone is AUTHENTICATED: its verify answered "success"
C18_Witness ==
    \E r \in Slots :
        /\ Done(r, {"verify"})
        /\ req[r].resp = Resp(200, <<"success">>, 0)
        /\ Authenticated(req[r].phone)
        /\ Cardinality(store) = 1

\* ---- C19
\* C19: an analyze that fails after the chat was resolved, while iterating
\* the messages or classifying one, is not answered as InvalidChat (400 "Chat
\* topilmadi"), whatever was raised.
C19_InvalidChatOnlyFromResolution ==
    [][\A r \in Slots :
          (/\ Continues(r, {"analyze"})
           /\ req[r].pc \in {"messages", "classify"}
           /\ req'[r].pc = "done")
          => req'[r].resp # Resp(400, <<"Chat topilmadi (ID noto'g'ri)">>, 0)]_vars

\* ---- C20
\* C20: once a verify for a phone has answered "success" and the phone is
\* AUTHENTICATED, a login that arrived before that (its code request already
\* made) does not take the phone out of AUTHENTICATED when it writes its row.
C20_EarlierLoginKeepsAuthenticated ==
    [][\A r \in Slots :
          (/\ Continues(r, {"login"})
           /\ req[r].pc = "upsert"
           /\ ~req[r].authed
           /\ Authenticated(req[r].phone)
           /\ \E q \in Slots :
                 /\ Done(q, {"verify"})
                 /\ req[q].phone = req[r].phone
                 /\ req[q].resp = Resp(200, <<"success">>, 0))
          => Authenticated(req[r].phone)']_vars

\* ---- C12 .. C15 are about the body of analyze (SpecAnalyze)
\* the call of analyze_text_sync made for the message with this id
C12_CallFor(id) ==
    CHOOSE c \in {analysis.classified[k] : k \in 1..Len(analysis.classified)} :
        c.id = id

\* the message's text, lowercased, has one of the keywords as a substring
C12_HasKeyword(msg) ==
    \E kw \in NEGATIVE_KEYWORDS :
        \E at \in 1..Len(msg.text.chars) :
            /\ at + Len(kw) - 1 <= Len(msg.text.chars)
            /\ \A j \in 1..Len(kw) : LowerChar(msg.text.chars[at + j - 1]) = kw[j]

C12_Retained(msg) ==
    \E j \in 1..Len(analysis.negative_messages) :
        analysis.negative_messages[j].id = msg.id

\* C12: a classified message is in negative_messages if and only if the model
\* labelled it "NEGATIVE" or its lowercased text contains a keyword; either
\* reason is enough.
C12_RetainedIffLabelOrKeyword ==
    /\ \A k \in 1..Len(analysis.classified) :
          LET msg == analysis.messages_to_process[k] IN
          C12_Retained(msg)
            <=> (analysis.classified[k].label = "NEGATIVE" \/ C12_HasKeyword(msg))
    /\ analysis.response.status_code = 200
       => analysis.response.negative_messages = analysis.negative_messages

\* a report keeping one message for a keyword alone and one for the label
\* alone, and dropping a third
C12_Witness ==
    /\ analysis.response.status_code = 200
    /\ \E a, b, c \in 1..Len(analysis.classified) :
          /\ analysis.classified[a].label = "POSITIVE"
          /\ C12_HasKeyword(analysis.messages_to_process[a])
          /\ C12_Retained(analysis.messages_to_process[a])
          /\ analysis.classified[b].label = "NEGATIVE"
          /\ ~C12_HasKeyword(analysis.messages_to_process[b])
          /\ C12_Retained(analysis.messages_to_process[b])
          /\ ~C12_Retained(analysis.messages_to_process[c])

\* ---- C13
\* C13: the confidence of a retained message is 1.0 when a keyword matched,
\* whatever the model's score, and otherwise the score rounded to four
\* decimal places; it lies between 0 and 1.
C13_Confidence ==
    \A j \in 1..Len(analysis.negative_messages) :
        LET entry == analysis.negative_messages[j]
            call == C12_CallFor(entry.id) IN
        /\ IF C12_HasKeyword(entry)
           THEN entry.confidence = ConfidenceOne
           ELSE /\ 10 * entry.confidence - call.score <= 5
                /\ call.score - 10 * entry.confidence <= 5
        /\ 0 <= entry.confidence
        /\ entry.confidence <= ConfidenceOne

\* a report with a keyword match whose score was below 1, a score rounded
\* down and a score rounded up to 1.0
C13_Witness ==
    /\ analysis.response.status_code = 200
    /\ \E a, b, c \in 1..Len(analysis.response.negative_messages) :
          LET ea == analysis.response.negative_messages[a]
              eb == analysis.response.negative_messages[b]
              ec == analysis.response.negative_messages[c] IN
          /\ C12_HasKeyword(ea)
          /\ 10 * ea.confidence > C12_CallFor(ea.id).score + 5
          /\ ~C12_HasKeyword(eb)
          /\ 10 * eb.confidence < C12_CallFor(eb.id).score
          /\ ~C12_HasKeyword(ec)
          /\ ec.confidence = ConfidenceOne

\* ---- C14
\* the message has a text that is not None, not empty and not only whitespace
C14_Counts(message) ==
    /\ ~message.text.none
    /\ \E j \in 1..Len(message.text.chars) :
          message.text.chars[j] \notin {" ", "\t", "\n"}

\* the messages that count among the first limit ones of the history
C14_Counted ==
    {i \in 1..Len(analysis.inbox) :
        i <= analysis.limit /\ C14_Counts(analysis.inbox[i])}

\* C14: analyzed_count is the number of messages, among the at most limit
\* fetched, whose text is present, not empty and not only whitespace; the
\* others are never classified.
C14_AnalyzedCount ==
    /\ (analysis.pc = "classify" \/ analysis.response.status_code = 200)
       => /\ analysis.analyzed_count = Cardinality(C14_Counted)
          /\ analysis.analyzed_count <= analysis.limit
    /\ analysis.response.status_code = 200
       => analysis.response.analyzed_count = Cardinality(C14_Counted)
    /\ \A k \in 1..Len(analysis.classified) :
          \E i \in C14_Counted : analysis.inbox[i].id = analysis.classified[k].id

\* a report over a history longer than the limit whose fetched part has a
\* whitespace-only text and whose rest has a text that would have counted
C14_Witness ==
    /\ analysis.response.status_code = 200
    /\ analysis.response.analyzed_count = 1
    /\ analysis.limit < Len(analysis.inbox)
    /\ \E i, j \in 1..Len(analysis.inbox) :
          /\ i <= analysis.limit
          /\ analysis.inbox[i].text = Str(<<" ", "\t">>)
          /\ j > analysis.limit
          /\ C14_Counts(analysis.inbox[j])

\* ---- C15
\* C15: negative_messages lists retained messages of the history in the order
\* they were retrieved (newest first, ids falling), each with its own id, text
\* and sender; every message to process is classified exactly once, in that
\* order; and negative_count is the length of negative_messages.
C15_SubsequenceInOrder ==
    /\ \A a, b \in 1..Len(analysis.negative_messages) :
          a < b => analysis.negative_messages[a].id > analysis.negative_messages[b].id
    /\ \A j \in 1..Len(analysis.negative_messages) :
          \E i \in 1..Len(analysis.inbox) :
             /\ analysis.inbox[i].id = analysis.negative_messages[j].id
             /\ analysis.inbox[i].text = analysis.negative_messages[j].text
             /\ analysis.inbox[i].sender_id = analysis.negative_messages[j].sender_id
    /\ \A k \in 1..Len(analysis.classified) :
          analysis.classified[k].id = analysis.messages_to_process[k].id
    /\ analysis.response.status_code = 200
       => /\ Len(analysis.classified) = Len(analysis.messages_to_process)
          /\ \A i \in C14_Counted :
                Cardinality({k \in 1..Len(analysis.classified) :
                               analysis.classified[k].id = analysis.inbox[i].id}) = 1
          /\ analysis.response.negative_count
               = Len(analysis.response.negative_messages)
          /\ analysis.response.negative_messages = analysis.negative_messages

\* a report with two negative messages and, between them in the history, one
\* that was classified and dropped
C15_Witness ==
    /\ analysis.response.status_code = 200
    /\ analysis.response.negative_count = 2
    /\ analysis.response.analyzed_count = 3
    /\ analysis.response.negative_messages[1].id = 3
    /\ analysis.response.negative_messages[2].id = 1
    /\ analysis.response.negative_messages[2].text = Str(LongText)

====
